---- MODULE Spec2Model ----
(***************************************************************************)
(* A model of not-shit-randr (src/src/main.rs): one run of main, from the  *)
(* capability query to the optional apply command.  Texts are TLA+ strings *)
(* and every string operation of the source (trim, lines, contains,        *)
(* split_once, split + next_back, trim_end_matches, parse, format!) is     *)
(* computed character by character as the Rust standard library does.      *)
(***************************************************************************)
EXTENDS Integers, Sequences, FiniteSets, TLC

(***************************************************************************)
(* Bounds of the model.                                                    *)
(***************************************************************************)
\* Number of outputs (one header line each) the display server reports.
NumOutputs == 3

(***************************************************************************)
(* The string primitives of the Rust standard library used by the source.  *)
(***************************************************************************)
Char(s, i) == SubSeq(s, i, i)

IsWhitespace(c) == c \in {" ", "\n", "\t", "\r"}

IsDigit(c) == c \in {"0", "1", "2", "3", "4", "5", "6", "7", "8", "9"}

DigitValue(c) ==
    CASE c = "0" -> 0 [] c = "1" -> 1 [] c = "2" -> 2 [] c = "3" -> 3
      [] c = "4" -> 4 [] c = "5" -> 5 [] c = "6" -> 6 [] c = "7" -> 7
      [] c = "8" -> 8 [] c = "9" -> 9

DigitChar(d) == Char("0123456789", d + 1)

None == [some |-> FALSE]

Some(v) == [some |-> TRUE, val |-> v]

\* str::contains(pat)
Contains(s, pat) ==
    \E i \in 1..(Len(s) - Len(pat) + 1) : SubSeq(s, i, i + Len(pat) - 1) = pat

\* Index of the first occurrence of the character c in s, 0 when absent.
RECURSIVE FindFrom(_, _, _)
FindFrom(s, c, i) ==
    IF i > Len(s) THEN 0
    ELSE IF Char(s, i) = c THEN i
    ELSE FindFrom(s, c, i + 1)

\* Index of the last occurrence of the character c in s, 0 when absent.
RECURSIVE RFindFrom(_, _, _)
RFindFrom(s, c, i) ==
    IF i < 1 THEN 0
    ELSE IF Char(s, i) = c THEN i
    ELSE RFindFrom(s, c, i - 1)

\* str::split_once(c): the parts before and after the first c.
split_once(s, c) ==
    LET i == FindFrom(s, c, 1)
    IN  IF i = 0 THEN None
        ELSE Some(<<SubSeq(s, 1, i - 1), SubSeq(s, i + 1, Len(s))>>)

\* str::trim_start / trim_end / trim
RECURSIVE trim_start(_)
trim_start(s) ==
    IF Len(s) > 0 /\ IsWhitespace(Char(s, 1))
    THEN trim_start(SubSeq(s, 2, Len(s)))
    ELSE s

RECURSIVE trim_end(_)
trim_end(s) ==
    IF Len(s) > 0 /\ IsWhitespace(Char(s, Len(s)))
    THEN trim_end(SubSeq(s, 1, Len(s) - 1))
    ELSE s

trim(s) == trim_end(trim_start(s))

\* str::trim_end_matches(pat): pat removed from the end as often as it matches.
RECURSIVE trim_end_matches(_, _)
trim_end_matches(s, pat) ==
    IF Len(s) >= Len(pat) /\ SubSeq(s, Len(s) - Len(pat) + 1, Len(s)) = pat
    THEN trim_end_matches(SubSeq(s, 1, Len(s) - Len(pat)), pat)
    ELSE s

\* str::lines(): split at "\n", a "\r" before it removed, no empty last line.
StripCR(l) ==
    IF Len(l) > 0 /\ Char(l, Len(l)) = "\r" THEN SubSeq(l, 1, Len(l) - 1) ELSE l

RECURSIVE lines(_)
lines(s) ==
    IF Len(s) = 0 THEN <<>>
    ELSE LET i == FindFrom(s, "\n", 1)
         IN  IF i = 0 THEN <<s>>
             ELSE <<StripCR(SubSeq(s, 1, i - 1))>> \o lines(SubSeq(s, i + 1, Len(s)))

\* [String]::join(sep)
RECURSIVE join(_, _)
join(ls, sep) ==
    IF Len(ls) = 0 THEN ""
    ELSE IF Len(ls) = 1 THEN ls[1]
    ELSE ls[1] \o sep \o join(Tail(ls), sep)

\* Iterator::flatten over the chunks.
RECURSIVE flatten(_)
flatten(cs) == IF Len(cs) = 0 THEN <<>> ELSE cs[1] \o flatten(Tail(cs))

\* str::parse::<usize>(): an optional "+", then one or more decimal digits.
\* (The numbers of the model stay far below 2^64, where parse overflows.)
RECURSIVE DigitsValue(_, _)
DigitsValue(s, acc) ==
    IF Len(s) = 0 THEN acc
    ELSE DigitsValue(SubSeq(s, 2, Len(s)), 10 * acc + DigitValue(Char(s, 1)))

parse_usize(s) ==
    LET d == IF Len(s) > 0 /\ Char(s, 1) = "+" THEN SubSeq(s, 2, Len(s)) ELSE s
    IN  IF Len(d) > 0 /\ \A i \in 1..Len(d) : IsDigit(Char(d, i))
        THEN Some(DigitsValue(d, 0))
        ELSE None

\* format!("{}", n) of a usize.
RECURSIVE format_usize(_)
format_usize(n) ==
    IF n < 10 THEN DigitChar(n)
    ELSE format_usize(n \div 10) \o DigitChar(n % 10)

(***************************************************************************)
(* Results: Ok(v), Err, or a panic (an index out of bounds, an unwrap).    *)
(***************************************************************************)
Ok(v) == [tag |-> "Ok", val |-> v]

Err == [tag |-> "Err", val |-> <<>>]

Panic == [tag |-> "Panic", val |-> <<>>]

\* struct Monitor
Monitor(name, width, height, refresh) ==
    [name |-> name, width |-> width, height |-> height, refresh |-> refresh]

(***************************************************************************)
(* Monitors::parse_xrandr_monitors                                         *)
(***************************************************************************)
\* The marker the grouping loop looks for in the peeked line.
IsMarkerLine(line) == Contains(line, "connected")

\* The inner while loop.  lines and peak are 0-based in the source: lines[k]
\* is ls[k + 1] here and lines.get(peak) is Some iff peak < Len(ls).
RECURSIVE peak_loop(_, _, _)
peak_loop(ls, peak, peak_line) ==
    IF IsMarkerLine(peak_line) THEN peak
    ELSE IF peak < Len(ls) THEN peak_loop(ls, peak + 1, ls[peak + 1])
    ELSE peak

\* The outer while loop: chunks.push(lines.drain(..peak)) while lines.len() > 1.
RECURSIVE drain_loop(_, _)
drain_loop(ls, chunks) ==
    IF Len(ls) > 1
    THEN LET peak == peak_loop(ls, 1, ls[2])
         IN  drain_loop(SubSeq(ls, peak + 1, Len(ls)),
                        Append(chunks, SubSeq(ls, 1, peak)))
    ELSE chunks

parse_xrandr_monitors(xrandr_outputs) == drain_loop(lines(trim(xrandr_outputs)), <<>>)

(***************************************************************************)
(* Monitor::parse_max_from_chunk                                           *)
(***************************************************************************)
\* The refresh rate: the text before the first space of the trimmed rest,
\* or the whole trimmed rest.
primary_refreshrate(refreshrate) ==
    LET r == split_once(trim(refreshrate), " ")
    IN  IF r.some THEN r.val[1] ELSE trim(refreshrate)

\* From chunk[1] on: the first mode line of the chunk.
parse_max_res(name, line) ==
    LET max_res == trim(line)
        sp      == split_once(max_res, " ")
    IN  IF ~sp.some THEN Err
        ELSE LET wh == split_once(sp.val[1], "x")
             IN  IF ~wh.some THEN Err
                 ELSE LET width  == parse_usize(wh.val[1])
                          height == parse_usize(wh.val[2])
                      IN  IF ~width.some THEN Err
                          ELSE IF ~height.some THEN Err
                          ELSE Ok(Monitor(name, width.val, height.val,
                                          primary_refreshrate(sp.val[2])))

parse_max_from_chunk(chunk) ==
    LET nm == split_once(chunk[1], " ")
    IN  IF ~nm.some THEN Err
        ELSE IF Len(chunk) < 2 THEN Panic   \* chunk[1] is out of bounds
        ELSE parse_max_res(nm.val[1], chunk[2])

(***************************************************************************)
(* Monitors::from_cli_text                                                 *)
(***************************************************************************)
\* The filter of the chunk pipeline.
IsAlive(chunk) == ~Contains(chunk[1], "disconnected")

\* collect::<Result<Vec<Monitor>>>: in order, stopping at the first chunk that
\* does not parse.
RECURSIVE collect_monitors(_, _)
collect_monitors(chunks, acc) ==
    IF Len(chunks) = 0 THEN Ok(acc)
    ELSE IF ~IsAlive(chunks[1]) THEN collect_monitors(Tail(chunks), acc)
    ELSE LET r == parse_max_from_chunk(chunks[1])
         IN  IF r.tag = "Ok" THEN collect_monitors(Tail(chunks), Append(acc, r.val))
             ELSE r

\* skip(1) of the chunks.
skip1(s) == IF Len(s) = 0 THEN <<>> ELSE Tail(s)

from_cli_text(xrandr_outputs) ==
    collect_monitors(skip1(parse_xrandr_monitors(xrandr_outputs)), <<>>)

(***************************************************************************)
(* Monitors::get_current_from_list                                         *)
(***************************************************************************)
\* One line of the active list: split(' '), next_back twice, split_once('x').
parse_active_line(line) ==
    LET i == RFindFrom(line, " ", Len(line))
    IN  IF i = 0 THEN Err                      \* no second token from the back
        ELSE LET name         == SubSeq(line, i + 1, Len(line))
                 before       == SubSeq(line, 1, i - 1)
                 j            == RFindFrom(before, " ", Len(before))
                 width_height == SubSeq(before, j + 1, Len(before))
                 wh           == split_once(width_height, "x")
             IN  IF ~wh.some THEN Err
                 ELSE LET width  == parse_usize(trim_end_matches(wh.val[1], "/*"))
                          height == parse_usize(trim_end_matches(wh.val[2], "/*"))
                      IN  IF ~width.some THEN Err
                          ELSE IF ~height.some THEN Err
                          ELSE Ok(Monitor(name, width.val, height.val, ""))

RECURSIVE collect_active(_, _)
collect_active(ls, acc) ==
    IF Len(ls) = 0 THEN Ok(acc)
    ELSE LET r == parse_active_line(ls[1])
         IN  IF r.tag = "Ok" THEN collect_active(Tail(ls), Append(acc, r.val))
             ELSE r

get_current_from_list(listactivemonitors) ==
    collect_active(skip1(lines(listactivemonitors)), <<>>)

(***************************************************************************)
(* Monitors::get_biggest, Monitors::get_biggest_command_string and         *)
(* Monitor::set_strings                                                    *)
(***************************************************************************)
\* A selection loop in which an entry of equal width replaces the earlier one.
is_bigger_or_equal(monitor, biggest_monitor) ==
    monitor.width >= biggest_monitor.width

\* The comparison of the selection loop.
is_bigger(monitor, biggest_monitor) == monitor.width > biggest_monitor.width

\* for monitor in &self.monitors { if ... { biggest_monitor = monitor } }
RECURSIVE biggest_loop(_, _, _)
biggest_loop(monitors, i, biggest_monitor) ==
    IF i > Len(monitors) THEN biggest_monitor
    ELSE biggest_loop(monitors, i + 1,
                      IF is_bigger(monitors[i], biggest_monitor)
                      THEN monitors[i] ELSE biggest_monitor)

\* Defined on a non-empty collection; on an empty one &self.monitors[0] panics.
get_biggest(monitors) == biggest_loop(monitors, 1, monitors[1])

set_strings(m, on) ==
    IF on
    THEN <<"--output", m.name, "--mode",
           format_usize(m.width) \o "x" \o format_usize(m.height)>>
    ELSE <<"--output", m.name, "--off">>

RECURSIVE flat_map_set_strings(_, _)
flat_map_set_strings(monitors, name) ==
    IF Len(monitors) = 0 THEN <<>>
    ELSE set_strings(monitors[1], monitors[1].name = name)
         \o flat_map_set_strings(Tail(monitors), name)

get_biggest_command_string(monitors) ==
    flat_map_set_strings(monitors, get_biggest(monitors).name)

\* The test of main with the comparison of the names inverted.
needs_apply_inverted(current, possible) == current.name = possible.name

\* The test of main that decides whether the apply command is run.
needs_apply(current, possible) == current.name /= possible.name

(***************************************************************************)
(* The display server behind the xrandr command: the outputs, the modes    *)
(* each supports and the mode each is showing ("" when it is off).         *)
(***************************************************************************)
\* The mode tables an output may report, best mode first ("2x1i": an
\* interlaced mode, as in "1920x1080i").
ModeTables ==
    { <<>>, <<"1x1">>, <<"2x1", "1x1">>, <<"3x2", "2x2">>, <<"0x0">>, <<"2x1i">> }

Range(f) == {f[i] : i \in DOMAIN f}

OutputConfigs ==
    {[connected |-> FALSE, modes |-> <<>>, active |-> ""]}
    \cup {[connected |-> TRUE, modes |-> t, active |-> a] :
             t \in ModeTables, a \in {""} \cup UNION {Range(u) : u \in ModeTables}}

Worlds ==
    {w \in [1..NumOutputs -> OutputConfigs] :
        \A i \in 1..NumOutputs : w[i].active \in {""} \cup Range(w[i].modes)}

OutputName(i) == "DP-" \o format_usize(i)

\* The text of "xrandr -q": a summary line, then per output a header line
\* and one line per mode (the layout of OUTPUT in the tests).
mode_line(o, k) ==
    "   " \o o.modes[k] \o "     60.00"
    \o (IF o.modes[k] = o.active THEN "*" ELSE "")
    \o (IF k = 1 THEN "+" ELSE "") \o "\n"

RECURSIVE mode_lines(_, _)
mode_lines(o, k) ==
    IF k > Len(o.modes) THEN "" ELSE mode_line(o, k) \o mode_lines(o, k + 1)

header_line(i, o) ==
    OutputName(i)
    \o (IF o.connected THEN " connected " ELSE " disconnected ")
    \o (IF o.active /= "" THEN o.active \o "+0+0 " ELSE "")
    \o "(normal left inverted)\n"

RECURSIVE output_blocks(_, _)
output_blocks(w, i) ==
    IF i > Len(w) THEN ""
    ELSE header_line(i, w[i]) \o mode_lines(w[i], 1) \o output_blocks(w, i + 1)

xrandr_q(w) == "Screen 0: minimum 8 x 8, current 3 x 2\n" \o output_blocks(w, 1)

\* The text of "xrandr --listactivemonitors": a count line, then one line per
\* output that is on, its mode the second token from the end, its name the last.
ActiveOutputs(w) == {i \in DOMAIN w : w[i].active /= ""}

\* "plain": the mode as WIDTHxHEIGHT, "/*" after it on the primary output.
\* "geometry": the mode with sizes in mm and the position, two spaces before
\* the name (" 0: +*eDP-1 1920/344x1200/215+0+0  eDP-1").
ActiveFormats == {"plain", "geometry"}

active_mode(mode, k, fmt) ==
    IF fmt = "plain" THEN mode \o (IF k = 0 THEN "/*" ELSE "") \o " "
    ELSE LET wh == split_once(mode, "x")
         IN  wh.val[1] \o "/344x" \o wh.val[2] \o "/215+0+0  "

RECURSIVE active_lines(_, _, _, _)
active_lines(w, i, k, fmt) ==
    IF i > Len(w) THEN ""
    ELSE IF w[i].active = "" THEN active_lines(w, i + 1, k, fmt)
    ELSE " " \o format_usize(k) \o ": +" \o (IF k = 0 THEN "*" ELSE "")
         \o OutputName(i) \o " " \o active_mode(w[i].active, k, fmt)
         \o OutputName(i) \o "\n" \o active_lines(w, i + 1, k + 1, fmt)

xrandr_listactivemonitors(w, fmt) ==
    "Monitors: " \o format_usize(Cardinality(ActiveOutputs(w))) \o "\n"
    \o active_lines(w, 1, 0, fmt)

\* The effect of "xrandr <args>": each group sets the output it names to the
\* mode it names, or turns it off; a group that names no output of the
\* server, or a mode its output does not have, changes nothing.
set_output(w, name, mode) ==
    [i \in DOMAIN w |->
        IF OutputName(i) = name /\ w[i].connected
           /\ mode \in {""} \cup Range(w[i].modes)
        THEN [w[i] EXCEPT !.active = mode] ELSE w[i]]

RECURSIVE xrandr_apply(_, _)
xrandr_apply(w, args) ==
    IF Len(args) < 3 THEN w
    ELSE IF args[3] = "--off"
    THEN xrandr_apply(set_output(w, args[2], ""), SubSeq(args, 4, Len(args)))
    ELSE xrandr_apply(set_output(w, args[2], args[4]), SubSeq(args, 5, Len(args)))

(***************************************************************************)
(* One run of main.                                                        *)
(***************************************************************************)
VARIABLES
    world,              \* the display server's outputs
    pc,                 \* the statement of main that runs next
    exit_code,          \* -1 while running, 0, 1, or 101 after a panic
    possible_text,      \* the String of launch_xrandr("-q")
    chunks,             \* the chunks of parse_xrandr_monitors
    possible_result,    \* the tag of from_cli_text's result
    possible_monitors,  \* possible_monitors.monitors
    active_string,      \* the String of launch_xrandr("--listactivemonitors")
    current_result,     \* the tag of get_current_from_list's result
    current_monitors,   \* current_monitors.monitors
    selected_from,      \* the length of each collection get_biggest was called on
    biggest_picks,      \* what get_biggest returned in main: <<current, possible>>
    apply_args          \* the arguments of each apply command that was spawned

vars == <<world, pc, exit_code, possible_text, chunks, possible_result,
          possible_monitors, active_string, current_result, current_monitors,
          selected_from, biggest_picks, apply_args>>

Init ==
    /\ world \in Worlds
    /\ pc = "query_possible"
    /\ exit_code = -1
    /\ possible_text = ""
    /\ chunks = <<>>
    /\ possible_result = "None"
    /\ possible_monitors = <<>>
    /\ active_string = ""
    /\ current_result = "None"
    /\ current_monitors = <<>>
    /\ selected_from = <<>>
    /\ biggest_picks = <<>>
    /\ apply_args = <<>>

\* exit(code), or the abort of a panic (code 101).
Exit(code) == pc' = "exited" /\ exit_code' = code

\* The outcomes of Command::output() and String::from_utf8 in launch_xrandr.
LaunchOutcomes == {"ok", "launch_failed", "non_utf8"}

\* let possible_monitors = launch_xrandr("-q");
LaunchPossible ==
    /\ pc = "query_possible"
    /\ \E outcome \in LaunchOutcomes :
          IF outcome = "ok"
          THEN /\ possible_text' = xrandr_q(world)
               /\ pc' = "parse_possible"
               /\ UNCHANGED exit_code
          ELSE /\ Exit(1)
               /\ UNCHANGED possible_text
    /\ UNCHANGED <<world, chunks, possible_result, possible_monitors,
                   active_string, current_result, current_monitors,
                   selected_from, biggest_picks, apply_args>>

\* let Ok(possible_monitors) = Monitors::from_cli_text(..) else { exit(1) };
ParsePossible ==
    /\ pc = "parse_possible"
    /\ chunks' = parse_xrandr_monitors(possible_text)
    /\ LET r == from_cli_text(possible_text)
       IN  /\ possible_result' = r.tag
           /\ possible_monitors' = r.val
           /\ CASE r.tag = "Ok"    -> pc' = "check_empty" /\ UNCHANGED exit_code
                [] r.tag = "Err"   -> Exit(1)
                [] r.tag = "Panic" -> Exit(101)
    /\ UNCHANGED <<world, possible_text, active_string, current_result,
                   current_monitors, selected_from, biggest_picks, apply_args>>

\* if possible_monitors.monitors.is_empty() { exit(1) }
CheckEmpty ==
    /\ pc = "check_empty"
    /\ IF Len(possible_monitors) = 0
       THEN Exit(1)
       ELSE pc' = "query_active" /\ UNCHANGED exit_code
    /\ UNCHANGED <<world, possible_text, chunks, possible_result,
                   possible_monitors, active_string, current_result,
                   current_monitors, selected_from, biggest_picks, apply_args>>

\* let active_string = launch_xrandr("--listactivemonitors");
LaunchActive ==
    /\ pc = "query_active"
    /\ \E outcome \in LaunchOutcomes, fmt \in ActiveFormats :
          IF outcome = "ok"
          THEN /\ active_string' = xrandr_listactivemonitors(world, fmt)
               /\ pc' = "parse_current"
               /\ UNCHANGED exit_code
          ELSE /\ Exit(1)
               /\ UNCHANGED active_string
    /\ UNCHANGED <<world, possible_text, chunks, possible_result,
                   possible_monitors, current_result, current_monitors,
                   selected_from, biggest_picks, apply_args>>

\* let Ok(current_monitors) = Monitors::get_current_from_list(..) else { exit(1) };
ParseCurrent ==
    /\ pc = "parse_current"
    /\ LET r == get_current_from_list(active_string)
       IN  /\ current_result' = r.tag
           /\ current_monitors' = r.val
           /\ IF r.tag = "Ok"
              THEN pc' = "compare" /\ UNCHANGED exit_code
              ELSE Exit(1)
    /\ UNCHANGED <<world, possible_text, chunks, possible_result,
                   possible_monitors, active_string, selected_from,
                   biggest_picks, apply_args>>

\* if current_monitors.get_biggest().name != possible_monitors.get_biggest().name
\* The left operand is evaluated first; get_biggest panics on an empty Vec.
Compare ==
    /\ pc = "compare"
    /\ IF Len(current_monitors) = 0
       THEN /\ selected_from' = Append(selected_from, 0)
            /\ UNCHANGED biggest_picks
            /\ Exit(101)
       ELSE /\ selected_from' = selected_from
                   \o <<Len(current_monitors), Len(possible_monitors)>>
            /\ biggest_picks' = <<get_biggest(current_monitors),
                                  get_biggest(possible_monitors)>>
            /\ IF needs_apply(get_biggest(current_monitors),
                              get_biggest(possible_monitors))
               THEN pc' = "apply" /\ UNCHANGED exit_code
               ELSE Exit(0)
    /\ UNCHANGED <<world, possible_text, chunks, possible_result,
                   possible_monitors, active_string, current_result,
                   current_monitors, apply_args>>

\* Command::new("xrandr").args(..).spawn().unwrap().wait().unwrap();
\* The exit status of the command is not looked at.
Apply ==
    /\ pc = "apply"
    /\ selected_from' = Append(selected_from, Len(possible_monitors))
    /\ \E spawned \in BOOLEAN :
          IF spawned
          THEN LET args == get_biggest_command_string(possible_monitors)
               IN  /\ apply_args' = Append(apply_args, args)
                   /\ world' = xrandr_apply(world, args)
                   /\ Exit(0)
          ELSE /\ Exit(101)
               /\ UNCHANGED <<apply_args, world>>
    /\ UNCHANGED <<possible_text, chunks, possible_result, possible_monitors,
                   active_string, current_result, current_monitors,
                   biggest_picks>>

Next ==
    \/ LaunchPossible
    \/ ParsePossible
    \/ CheckEmpty
    \/ LaunchActive
    \/ ParseCurrent
    \/ Compare
    \/ Apply

Spec == Init /\ [][Next]_vars

(***************************************************************************)
(* Vocabulary of the properties.                                           *)
(***************************************************************************)
\* The lines of the capability text as from_cli_text sees them.
TextLines == lines(trim(possible_text))

\* The grouping step has run.
Grouped == possible_result /= "None"

\* A header line of a connected output.
IsConnectedHeader(line) ==
    Contains(line, "connected") /\ ~Contains(line, "disconnected")

\* The connected header lines after the summary line.
ConnectedHeaders ==
    {i \in 2..Len(TextLines) : IsConnectedHeader(TextLines[i])}

\* A mode line: no marker, and a resolution WIDTHxHEIGHT followed by a rate.
IsModeLine(line) ==
    ~IsMarkerLine(line) /\ parse_max_res("", line).tag = "Ok"

\* The width of a mode "WIDTHxHEIGHT" of the display server.
ModeWidth(mode) == parse_usize(split_once(mode, "x").val[1]).val

\* The connected outputs that have a mode, and the first of them among those
\* whose best mode is widest.
Capable(w) == {i \in DOMAIN w : w[i].connected /\ Len(w[i].modes) > 0}

IsLargest(w, t) ==
    /\ t \in Capable(w)
    /\ \A i \in Capable(w) :
          /\ ModeWidth(w[i].modes[1]) <= ModeWidth(w[t].modes[1])
          /\ i < t => ModeWidth(w[i].modes[1]) < ModeWidth(w[t].modes[1])

\* The largest output shows its best mode and every other connected output is off.
BiggestWins(w) ==
    \E t \in DOMAIN w :
        /\ IsLargest(w, t)
        /\ w[t].active = w[t].modes[1]
        /\ \A i \in DOMAIN w : (i /= t /\ w[i].connected) => w[i].active = ""

\* The smallest index of monitors at which the width is the greatest.
FirstWidest(monitors) ==
    CHOOSE i \in 1..Len(monitors) :
        /\ \A j \in 1..Len(monitors) : monitors[j].width <= monitors[i].width
        /\ \A j \in 1..(i - 1) : monitors[j].width < monitors[i].width

\* The groups of an argument sequence: "--output n --mode m" or "--output n --off".
RECURSIVE Groups(_)
Groups(args) ==
    IF Len(args) < 3 THEN <<>>
    ELSE IF args[3] = "--off"
    THEN <<[name |-> args[2], on |-> FALSE, mode |-> ""]>>
         \o Groups(SubSeq(args, 4, Len(args)))
    ELSE <<[name |-> args[2], on |-> TRUE, mode |-> args[4]]>>
         \o Groups(SubSeq(args, 5, Len(args)))

(***************************************************************************)
(* C1.  Joining the lines of all chunks of parse_xrandr_monitors, in       *)
(* order, with newlines gives back the trimmed capability text: no line is *)
(* dropped, duplicated or moved, the last line included.                   *)
(***************************************************************************)
C1_ChunkingRoundTrip ==
    (Grouped /\ Len(TextLines) >= 1)
        => join(flatten(chunks), "\n") = trim(possible_text)

(***************************************************************************)
(* C2.  When every connected header line of the capability text is         *)
(* followed by a well-formed mode line, from_cli_text succeeds and returns *)
(* as many monitors as there are connected header lines.                   *)
(***************************************************************************)
C2_ConnectedCount ==
    (/\ Grouped
     /\ \A i \in ConnectedHeaders :
           i < Len(TextLines) /\ IsModeLine(TextLines[i + 1]))
        => (/\ possible_result = "Ok"
            /\ Len(possible_monitors) = Cardinality(ConnectedHeaders))

(***************************************************************************)
(* C3.  After a run that ends with exit code 0, the largest connected      *)
(* output is on at its best mode and every other connected output is off.  *)
(***************************************************************************)
C3_BiggestWinsAfterSuccess ==
    (pc = "exited" /\ exit_code = 0) => BiggestWins(world)

(***************************************************************************)
(* C4.  When a connected output's header line is followed by another       *)
(* header line or is the last line, the run ends with a parse error        *)
(* result, exit code 1, and no apply command.                              *)
(***************************************************************************)
HasHeaderOnlyOutput ==
    \E i \in ConnectedHeaders :
        i = Len(TextLines) \/ IsMarkerLine(TextLines[i + 1])

C4_HeaderOnlyIsParseError ==
    (pc = "exited" /\ HasHeaderOnlyOutput)
        => (possible_result = "Err" /\ exit_code = 1 /\ apply_args = <<>>)

(***************************************************************************)
(* C5.  get_biggest is only ever called on a non-empty collection.         *)
(***************************************************************************)
C5_SelectorNeverOnEmpty ==
    \A k \in 1..Len(selected_from) : selected_from[k] > 0

(***************************************************************************)
(* C6.  What get_biggest returned in main, for the active list and for the *)
(* capability list, is the entry at the smallest index whose width is the  *)
(* greatest of its collection.                                             *)
(***************************************************************************)
C6_FirstWidestIsPicked ==
    Len(biggest_picks) = 2
        => (/\ biggest_picks[1] = current_monitors[FirstWidest(current_monitors)]
            /\ biggest_picks[2] = possible_monitors[FirstWidest(possible_monitors)])

\* The selection ran on an active list in which two entries share the greatest
\* width, the second one the taller.
C6_Witness ==
    /\ Len(biggest_picks) = 2
    /\ \E i, j \in 1..Len(current_monitors) :
          /\ i < j
          /\ current_monitors[i].width = current_monitors[j].width
          /\ current_monitors[i].height < current_monitors[j].height
          /\ \A k \in 1..Len(current_monitors) :
                current_monitors[k].width <= current_monitors[i].width

(***************************************************************************)
(* C7.  The arguments of the apply command hold one group per monitor of   *)
(* the capability list: one "--mode" group, for the selected monitor with  *)
(* its width and height, and one "--off" group for each other monitor.     *)
(***************************************************************************)
C7_OneGroupPerMonitor ==
    \A a \in 1..Len(apply_args) :
        LET G      == Groups(apply_args[a])
            target == biggest_picks[2]
            t      == FirstWidest(possible_monitors)
            OnIdx  == {g \in 1..Len(G) : G[g].on}
        IN  /\ Len(G) = Len(possible_monitors)
            /\ Cardinality(OnIdx) = 1
            /\ \A g \in OnIdx :
                  /\ G[g].name = target.name
                  /\ G[g].mode = format_usize(target.width) \o "x"
                                    \o format_usize(target.height)
            /\ \A i \in 1..Len(possible_monitors) :
                  i /= t =>
                     Cardinality({g \in 1..Len(G) :
                                     ~G[g].on /\ G[g].name = possible_monitors[i].name}) = 1

(***************************************************************************)
(* C8.  The apply command is run at most once, and only after both parses  *)
(* succeeded, the capability list was not empty and the two biggest        *)
(* monitors have different names; a run that ended with equal names or     *)
(* with a failure has run no apply command.                                *)
(***************************************************************************)
RunFailed ==
    \/ possible_result /= "Ok"
    \/ Len(possible_monitors) = 0
    \/ current_result /= "Ok"
    \/ Len(current_monitors) = 0

C8_ApplyOnlyWhenNamesDiffer ==
    /\ Len(apply_args) <= 1
    /\ Len(apply_args) = 1 =>
          /\ ~RunFailed
          /\ Len(biggest_picks) = 2
          /\ biggest_picks[1].name /= biggest_picks[2].name
    /\ (pc = "exited" /\ RunFailed) => apply_args = <<>>
    /\ (pc = "exited" /\ Len(biggest_picks) = 2
          /\ biggest_picks[1].name = biggest_picks[2].name) => apply_args = <<>>

\* A run that ran the apply command.
C8_Witness == pc = "exited" /\ Len(apply_args) = 1

(***************************************************************************)
(* C9.  Every Monitor either parser built has width > 0 and height > 0.    *)
(***************************************************************************)
C9_PositiveDimensions ==
    /\ \A i \in 1..Len(possible_monitors) :
          possible_monitors[i].width > 0 /\ possible_monitors[i].height > 0
    /\ \A i \in 1..Len(current_monitors) :
          current_monitors[i].width > 0 /\ current_monitors[i].height > 0

(***************************************************************************)
(* C10.  Every chunk after the summary-line chunk begins with a marker     *)
(* line and holds no other marker line.                                    *)
(***************************************************************************)
C10_ChunkIsOneOutput ==
    Grouped =>
        \A c \in 2..Len(chunks) :
            /\ IsMarkerLine(chunks[c][1])
            /\ \A k \in 2..Len(chunks[c]) : ~IsMarkerLine(chunks[c][k])

====
